---- MODULE Spec2Model ----
(***************************************************************************)
(* music_snapshot: the command group and the `create` command of          *)
(* command_line.py, and the helper functions of tracks.py (select_track,   *)
(* guess_end_track, lastfm_track_to_spotify).                              *)
(*                                                                         *)
(* Python strings are sequences of one-character strings, Python lists are *)
(* sequences, and a Python index n (0-based) is position n + 1.            *)
(* Timestamps are epoch seconds.  `None` is NoneN for an index and         *)
(* NoneTrack for a played track.                                           *)
(***************************************************************************)
EXTENDS Integers, Sequences, FiniteSets, TLC

VARIABLES
    pc,               \* position of the create command
    start_datetime,   \* start_datetime - now, in minutes, after the buffer
    fetch_calls,      \* get_recent_tracks calls: <<[limit, time_from, time_to, returned]>>
    song_candidates,  \* list of played tracks, after reverse()
    page,             \* page of the running selection loop
    first_song,       \* selected first song (played track) or NoneTrack
    first_song_n,     \* its index or NoneN
    guess_last_song,  \* default choice of the last-song prompt: <<>> or <<n>>
    guess_last_song_n,\* guessed end index
    last_song,        \* selected last song or NoneTrack
    last_song_n,      \* its index or NoneN
    playlist_id,      \* <<>> until user_playlist_create returned, then <<id>>
    search_calls,     \* spotify_api.search calls issued, in order
    songs_to_add,     \* ids collected by the resolution loop
    add_items_calls,  \* playlist_add_items calls issued: sequence of id lists
    output,           \* what the command printed last: error or summary
    lib_call,         \* last call of a tracks.py function: [fn, args, result]
    config_saved,     \* TRUE once `authorize` has saved the config file
    ctx_obj           \* <<>> until the cli callback built the context

vars == <<pc, start_datetime, fetch_calls, song_candidates, page, first_song,
          first_song_n, guess_last_song, guess_last_song_n, last_song,
          last_song_n, playlist_id, search_calls, songs_to_add,
          add_items_calls, output, lib_call, config_saved, ctx_obj>>

-----------------------------------------------------------------------------
(* Bounds of the model *)

\* longest history the history service returns, apart from LongHistory
MaxLen == 3

\* length of the one long history (several pages, more ids than one request)
LongLen == 77

-----------------------------------------------------------------------------
(* Python string operations *)

IsSpace(c) == c \in {" "}

StartsWith(s, w) ==
    /\ Len(w) <= Len(s)
    /\ SubSeq(s, 1, Len(w)) = w

EndsWith(s, w) ==
    /\ Len(w) <= Len(s)
    /\ SubSeq(s, Len(s) - Len(w) + 1, Len(s)) = w

\* str.replace(old, ""): every non-overlapping occurrence, left to right
RECURSIVE Replace(_, _)
Replace(s, old) ==
    IF Len(s) < Len(old) \/ old = <<>> THEN s
    ELSE IF StartsWith(s, old)
         THEN Replace(SubSeq(s, Len(old) + 1, Len(s)), old)
         ELSE <<Head(s)>> \o Replace(Tail(s), old)

\* str.removesuffix(suffix)
RemoveSuffix(s, suffix) ==
    IF suffix # <<>> /\ EndsWith(s, suffix)
    THEN SubSeq(s, 1, Len(s) - Len(suffix))
    ELSE s

RECURSIVE LStrip(_)
LStrip(s) == IF s # <<>> /\ IsSpace(Head(s)) THEN LStrip(Tail(s)) ELSE s

RECURSIVE RStrip(_)
RStrip(s) ==
    IF s # <<>> /\ IsSpace(s[Len(s)]) THEN RStrip(SubSeq(s, 1, Len(s) - 1)) ELSE s

\* str.strip()
Strip(s) == RStrip(LStrip(s))

\* str.split(sep)[0]: the text before the first occurrence of sep
RECURSIVE SplitFirst(_, _)
SplitFirst(s, sep) ==
    IF Len(s) < Len(sep) THEN s
    ELSE IF StartsWith(s, sep) THEN <<>>
    ELSE <<Head(s)>> \o SplitFirst(Tail(s), sep)

\* for word in words: s = s.replace(word, "")
RECURSIVE ReplaceEach(_, _)
ReplaceEach(s, words) ==
    IF words = <<>> THEN s
    ELSE ReplaceEach(Replace(s, Head(words)), Tail(words))

\* for suffix in suffixes: s = s.removesuffix(suffix)
RECURSIVE RemoveSuffixEach(_, _)
RemoveSuffixEach(s, suffixes) ==
    IF suffixes = <<>> THEN s
    ELSE RemoveSuffixEach(RemoveSuffix(s, Head(suffixes)), Tail(suffixes))

\* for suffix in suffixes: s = s.split(suffix)[0]
RECURSIVE SplitFirstEach(_, _)
SplitFirstEach(s, suffixes) ==
    IF suffixes = <<>> THEN s
    ELSE SplitFirstEach(SplitFirst(s, Head(suffixes)), Tail(suffixes))

-----------------------------------------------------------------------------
(* Last.fm tracks, played tracks and the Spotify catalog *)

\* The pylast.Track objects of the model: artist is get_artist().get_name(),
\* name is get_name().
\*   1 "The Beatles" / "Song (feat"     2 "Bathe" / "After"
\*   3 "Them" / "Theory"                4 " The the " / "Song ft"
\*   5 "tThehe" / "Song featft"         6 "Beatles" / " Song Feat "
\*   7 "Bee" / "Song"                   8 "Other" / "Soft (Ft"
LastfmTracks ==
    <<
       [artist |-> <<"T", "h", "e", " ", "B", "e", "a", "t", "l", "e", "s">>,
        name   |-> <<"S", "o", "n", "g", " ", "(", "f", "e", "a", "t">>],
       [artist |-> <<"B", "a", "t", "h", "e">>,
        name   |-> <<"A", "f", "t", "e", "r">>],
       [artist |-> <<"T", "h", "e", "m">>,
        name   |-> <<"T", "h", "e", "o", "r", "y">>],
       [artist |-> <<" ", "T", "h", "e", " ", "t", "h", "e", " ">>,
        name   |-> <<"S", "o", "n", "g", " ", "f", "t">>],
       [artist |-> <<"t", "T", "h", "e", "h", "e">>,
        name   |-> <<"S", "o", "n", "g", " ", "f", "e", "a", "t", "f", "t">>],
       [artist |-> <<"B", "e", "a", "t", "l", "e", "s">>,
        name   |-> <<" ", "S", "o", "n", "g", " ", "F", "e", "a", "t", " ">>],
       [artist |-> <<"B", "e", "e">>,
        name   |-> <<"S", "o", "n", "g">>],
       [artist |-> <<"O", "t", "h", "e", "r">>,
        name   |-> <<"S", "o", "f", "t", " ", "(", "F", "t">>]
    >>

TrackIds == 1..Len(LastfmTracks)

\* the tracks that occur in listening histories
HistoryTracks == {1, 2}

GetArtistName(track) == LastfmTracks[track].artist
GetName(track) == LastfmTracks[track].name

NoneN == -1
NoneTrack == [timestamp |-> -1, track |-> 0]

\* list[n] of Python, for 0 <= n < len(list)
At(list, n) == list[n + 1]

\* Reverse left out: the list stays as the service returned it
Reverse_Missing(list) == list

\* list.reverse()
RECURSIVE Reverse(_)
Reverse(list) ==
    IF list = <<>> THEN <<>> ELSE Reverse(Tail(list)) \o <<Head(list)>>

\* f"artist:{artist_name} track:{track_name}"
FormatQuery(artist_name, track_name) ==
    <<"a", "r", "t", "i", "s", "t", ":">> \o artist_name
    \o <<" ", "t", "r", "a", "c", "k", ":">> \o track_name

-----------------------------------------------------------------------------
(* tracks.py: lastfm_track_to_spotify, and the query built inside create *)

\* for word in ["the", "The"]
ArtistWords ==
    <<<<"t", "h", "e">>,
      <<"T", "h", "e">>>>

\* for suffix in ["ft", "Ft", "(ft", "(Ft", "feat", "Feat", "(feat", "(Feat"]
TrackSuffixes ==
    <<<<"f", "t">>,
      <<"F", "t">>,
      <<"(", "f", "t">>,
      <<"(", "F", "t">>,
      <<"f", "e", "a", "t">>,
      <<"F", "e", "a", "t">>,
      <<"(", "f", "e", "a", "t">>,
      <<"(", "F", "e", "a", "t">>>>

\* for suffix in ["(ft", "(feat", "ft", "feat"] of the create command
CreateSuffixes ==
    <<<<"(", "f", "t">>,
      <<"(", "f", "e", "a", "t">>,
      <<"f", "t">>,
      <<"f", "e", "a", "t">>>>

\* artist_name of lastfm_track_to_spotify, as placed in the query
lastfm_artist_name(track) ==
    Strip(ReplaceEach(GetArtistName(track), ArtistWords))

\* track_name of lastfm_track_to_spotify, as placed in the query
lastfm_track_name(track) ==
    Strip(RemoveSuffixEach(GetName(track), TrackSuffixes))

lastfm_query(track) ==
    FormatQuery(lastfm_artist_name(track), lastfm_track_name(track))

\* artist of the create command's loop, as placed in the query
create_artist(track) == GetArtistName(track)

\* track_name of the create command's loop, as placed in the query
create_track_name(track) ==
    SplitFirstEach(GetName(track), CreateSuffixes)

create_query(track) ==
    FormatQuery(create_artist(track), create_track_name(track))

\* The Spotify catalog: the tracks it holds.  It answers a query that either
\* code path builds for a track it holds; track 2 is not in the catalog.
SpotifyCatalog == TrackIds \ {2}

RECURSIVE SortedSeq(_)
SortedSeq(S) ==
    IF S = {} THEN <<>>
    ELSE LET m == CHOOSE x \in S : \A y \in S : x <= y
         IN  <<m>> \o SortedSeq(S \ {m})

\* the queries the catalog answers with track k
SearchIndex ==
    [k \in SpotifyCatalog |-> {create_query(k), lastfm_query(k)}]

\* spotify_api.search(q=q, limit=limit, type="track")["tracks"]["items"]:
\* a function of the query, at most `limit` items, best match first
SpotifySearch(q, limit) ==
    LET hits == SortedSeq({k \in SpotifyCatalog : q \in SearchIndex[k]})
        items == [i \in 1..Len(hits) |-> [id |-> hits[i]]]
    IN  IF Len(items) > limit THEN SubSeq(items, 1, limit) ELSE items

\* lastfm_track_to_spotify(spotify_api, track): the search call it issues and
\* what it returns or raises
lastfm_track_to_spotify(track) ==
    LET q == lastfm_query(track)
        results == SpotifySearch(q, 1)
    IN  [search |-> [q |-> q, limit |-> 1],
         raised |-> IF Len(results) = 0 THEN "ValueError" ELSE "",
         value  |-> IF Len(results) = 0 THEN <<>> ELSE <<results[1]>>]

-----------------------------------------------------------------------------
(* tracks.py: guess_end_track, and the guess made inside create *)

\* GapExceeds with >= in place of >
GapExceeds_AtThreshold(a, b, threshold) ==
    (b.timestamp - a.timestamp) >= threshold * 60

\* datetime.fromtimestamp(int(b.timestamp)) - datetime.fromtimestamp(int(a.timestamp))
\* > timedelta(minutes=threshold), in seconds
GapExceeds(a, b, threshold) == (b.timestamp - a.timestamp) > threshold * 60

\* the for loop of guess_end_track from index n on: the guessed index, or
\* NoneN when the slice tracks[first_track_n:] is empty
RECURSIVE guess_end_track(_, _, _)
guess_end_track(tracks, n, threshold) ==
    IF n >= Len(tracks) THEN NoneN
    ELSE IF n + 1 >= Len(tracks) THEN n              \* except IndexError
    ELSE IF GapExceeds(At(tracks, n), At(tracks, n + 1), threshold) THEN n
    ELSE guess_end_track(tracks, n + 1, threshold)

\* the for loop of the create command from index n on.  A list raises
\* IndexError, which `except KeyError` does not catch.
RECURSIVE create_guess(_, _, _)
create_guess(candidates, n, start_page) ==
    IF n >= Len(candidates)
    THEN [raised |-> "", n |-> start_page, song |-> <<>>]
    ELSE IF n + 1 >= Len(candidates)
    THEN [raised |-> "IndexError", n |-> start_page, song |-> <<>>]
    ELSE IF GapExceeds(At(candidates, n), At(candidates, n + 1), 60)
    THEN [raised |-> "", n |-> n, song |-> <<n>>]
    ELSE create_guess(candidates, n + 1, start_page)

-----------------------------------------------------------------------------
(* Inputs: what the user answers and what the remote services return *)

\* played_at values (epoch seconds) of the short histories
Timestamps == {0, 3600, 3601, 7202}

PlayedTracks == [timestamp : Timestamps, track : HistoryTracks]

\* every list of at most MaxLen played tracks, in any order
Histories == UNION {[1..n -> PlayedTracks] : n \in 0..MaxLen}

\* one history of LongLen tracks, newest first as Last.fm returns it: a track
\* a minute, tracks 1 and 7 in turn, the newest one after a silence of two hours
LongHistory ==
    [i \in 1..LongLen |->
        [timestamp |-> IF i = 1 THEN (LongLen - 2) * 60 + 7200
                       ELSE (LongLen - i) * 60,
         track |-> IF i % 2 = 0 THEN 1 ELSE 7]]

\* what get_recent_tracks may return
RawHistories == Histories \cup {LongHistory}

\* the histories guess_end_track is called with
LibHistories == {h \in Histories : \A i \in 1..Len(h) : h[i].track = 1}

\* thresholds (minutes) guess_end_track is called with
Thresholds == {60, 120}

\* the start date and time the user chooses, in minutes from now
StartChoices == {-120, 30, 60}

PageSize == 10
FetchLimit == 500
FetchDays == 5
StartBuffer == 60

\* what the process printed last and its exit code (-1: not exited yet)
NoOutput == [kind |-> "none", text |-> "", added |-> 0, code |-> -1]
\* click.ClickException, or an uncaught exception: exit code 1
ErrorOutput(text) == [kind |-> "error", text |-> text, added |-> 0, code |-> 1]
\* click.UsageError: exit code 2
UsageOutput(text) == [kind |-> "usage", text |-> text, added |-> 0, code |-> 2]
SummaryOutput(n) ==
    [kind |-> "summary", text |-> "Successfully added", added |-> n, code |-> 0]
\* the message of the version option, and ctx.exit()
VersionOutput ==
    [kind |-> "version", text |-> "music_snapshot, version", added |-> 0, code |-> 0]

NoLibCall == [fn |-> "none"]

-----------------------------------------------------------------------------
(* The create command *)

Init ==
    /\ pc = "idle"
    /\ start_datetime = 0
    /\ fetch_calls = <<>>
    /\ song_candidates = <<>>
    /\ page = 0
    /\ first_song = NoneTrack
    /\ first_song_n = NoneN
    /\ guess_last_song = <<>>
    /\ guess_last_song_n = NoneN
    /\ last_song = NoneTrack
    /\ last_song_n = NoneN
    /\ playlist_id = <<>>
    /\ search_calls = <<>>
    /\ songs_to_add = <<>>
    /\ add_items_calls = <<>>
    /\ output = NoOutput
    /\ lib_call = NoLibCall
    /\ config_saved = FALSE
    /\ ctx_obj = <<>>

cliVars == <<config_saved, ctx_obj>>
selectionVars == <<page, first_song, first_song_n, guess_last_song,
                   guess_last_song_n, last_song, last_song_n>>
remoteVars == <<playlist_id, search_calls, songs_to_add, add_items_calls>>

\* raise click.ClickException(text), or an uncaught exception named text
Abort(text) ==
    /\ pc' = "aborted"
    /\ output' = ErrorOutput(text)

\* the message of the FileNotFoundError handler (without its backquotes)
ConfigNotFoundText ==
    "Config file not found. You need to run authorize subcommand first."

\* raise click.UsageError(text)
UsageError(text) ==
    /\ pc' = "aborted"
    /\ output' = UsageOutput(text)

\* `music_snapshot authorize` ran to its end: the group callback returns at
\* once, the command saves the config file and the process exits
Authorize ==
    /\ pc = "idle"
    /\ ~config_saved
    /\ config_saved' = TRUE
    /\ UNCHANGED <<pc, start_datetime, fetch_calls, song_candidates,
                   selectionVars, remoteVars, output, lib_call, ctx_obj>>

\* InvokeVersion with --version as an ordinary flag, read after the group
\* callback has loaded the config
InvokeVersion_AfterCallback ==
    /\ pc = "idle"
    /\ IF config_saved
       THEN /\ pc' = "exited"
            /\ output' = VersionOutput
            /\ ctx_obj' = <<"context">>
       ELSE /\ UsageError(ConfigNotFoundText)
            /\ UNCHANGED ctx_obj
    /\ UNCHANGED <<start_datetime, fetch_calls, song_candidates, selectionVars,
                   remoteVars, lib_call, config_saved>>

\* `music_snapshot --version`: the eager option prints the version and exits
\* while the arguments are parsed, before the group callback is invoked
InvokeVersion ==
    /\ pc = "idle"
    /\ pc' = "exited"
    /\ output' = VersionOutput
    /\ UNCHANGED <<start_datetime, fetch_calls, song_candidates, selectionVars,
                   remoteVars, lib_call, cliVars>>

\* `music_snapshot` or `music_snapshot create` is run without a config file
ConfigNotFound ==
    /\ pc = "idle"
    /\ ~config_saved
    /\ UsageError(ConfigNotFoundText)
    /\ UNCHANGED <<start_datetime, fetch_calls, song_candidates, selectionVars,
                   remoteVars, lib_call, cliVars>>

\* the config is loaded but building a client raises
ClientFails ==
    /\ pc = "idle"
    /\ config_saved
    /\ \E text \in {"SpotifyException", "PyLastError"} : UsageError(text)
    /\ UNCHANGED <<start_datetime, fetch_calls, song_candidates, selectionVars,
                   remoteVars, lib_call, cliVars>>

\* `music_snapshot` or `music_snapshot create` is run: the group callback
\* loads the config, builds the context, and create starts
InvokeCreate ==
    /\ pc = "idle"
    /\ config_saved
    /\ pc' = "start"
    /\ ctx_obj' = <<"context">>
    /\ UNCHANGED <<start_datetime, fetch_calls, song_candidates, selectionVars,
                   remoteVars, output, lib_call, config_saved>>

\* one of the two start prompts is cancelled (ask() returns None)
CancelStart ==
    /\ pc = "start"
    /\ \E text \in {"You need to provide a start date.",
                    "You need to provide a start time."} : Abort(text)
    /\ UNCHANGED <<start_datetime, fetch_calls, song_candidates, selectionVars,
                   remoteVars, lib_call,
                   cliVars>>

\* the user answers both start prompts; the buffer is subtracted and the
\* result compared with now
SelectStart ==
    /\ pc = "start"
    /\ \E chosen \in StartChoices :
          /\ start_datetime' = chosen - StartBuffer
          /\ IF start_datetime' >= 0
             THEN Abort("Start date can't be in the future.")
             ELSE pc' = "fetch" /\ UNCHANGED output
    /\ UNCHANGED <<fetch_calls, song_candidates, selectionVars, remoteVars,
                   lib_call,
                   cliVars>>

\* Fetch without the check for an empty list
Fetch_NoEmptyCheck ==
    /\ pc = "fetch"
    /\ \E raw \in RawHistories :
          /\ fetch_calls' = Append(fetch_calls,
                [limit |-> FetchLimit, time_from |-> start_datetime,
                 time_to |-> start_datetime + FetchDays * 24 * 60,
                 returned |-> raw])
          /\ song_candidates' = Reverse(raw)
          /\ pc' = "first_song"
    /\ UNCHANGED <<start_datetime, selectionVars, remoteVars, output, lib_call,
                   cliVars>>

\* get_recent_tracks returns raw; the list is reversed and must not be empty
Fetch ==
    /\ pc = "fetch"
    /\ \E raw \in RawHistories :
          /\ fetch_calls' = Append(fetch_calls,
                [limit |-> FetchLimit, time_from |-> start_datetime,
                 time_to |-> start_datetime + FetchDays * 24 * 60,
                 returned |-> raw])
          /\ song_candidates' = Reverse(raw)
          /\ IF Len(song_candidates') = 0
             THEN Abort("No song candidates found.")
             ELSE pc' = "first_song" /\ UNCHANGED output
    /\ UNCHANGED <<start_datetime, selectionVars, remoteVars, lib_call,
                   cliVars>>

\* tracks[a:b] for 0 <= a <= b
Slice(tracks, a, b) ==
    LET hi == IF b < Len(tracks) THEN b ELSE Len(tracks)
        lo == IF a < hi THEN a ELSE hi
    IN  [i \in 1..(hi - lo) |-> tracks[lo + i]]

\* the track choices of a page:
\* enumerate(tracks[p * page_size : (p + 1) * page_size], start=p * page_size)
PageChoices(tracks, p, page_size) ==
    LET shown == Slice(tracks, p * page_size, (p + 1) * page_size)
    IN  [i \in 1..Len(shown) |->
            [n |-> p * page_size + i - 1, played_track |-> shown[i]]]

\* 'Previous' is among the choices
HasPrevious(p) == p > 0

\* HasNext that also offers 'Next' when the page ends with the last track
HasNext_OnLastPage(tracks, p, page_size) == (p + 1) * page_size <= Len(tracks)

\* 'Next' is among the choices
HasNext(tracks, p, page_size) == (p + 1) * page_size < Len(tracks)

FirstPrevious ==
    /\ pc = "first_song"
    /\ HasPrevious(page)
    /\ page' = page - 1
    /\ UNCHANGED <<pc, start_datetime, fetch_calls, song_candidates, first_song,
                   first_song_n, guess_last_song, guess_last_song_n, last_song,
                   last_song_n, remoteVars, output, lib_call,
                   cliVars>>

FirstNext ==
    /\ pc = "first_song"
    /\ HasNext(song_candidates, page, PageSize)
    /\ page' = page + 1
    /\ UNCHANGED <<pc, start_datetime, fetch_calls, song_candidates, first_song,
                   first_song_n, guess_last_song, guess_last_song_n, last_song,
                   last_song_n, remoteVars, output, lib_call,
                   cliVars>>

FirstCancel ==
    /\ pc = "first_song"
    /\ Abort("You need to select the first song.")
    /\ UNCHANGED <<start_datetime, fetch_calls, song_candidates, selectionVars,
                   remoteVars, lib_call,
                   cliVars>>

\* a track of the page is picked; the end song is guessed and the last-song
\* selection starts on the page of the guess
FirstPick ==
    /\ pc = "first_song"
    /\ \E i \in DOMAIN PageChoices(song_candidates, page, PageSize) :
          LET selected_song == PageChoices(song_candidates, page, PageSize)[i]
              guess == create_guess(song_candidates, selected_song.n, page)
          IN
          /\ first_song_n' = selected_song.n
          /\ first_song' = selected_song.played_track
          /\ IF guess.raised # ""
             THEN /\ Abort(guess.raised)
                  /\ UNCHANGED <<page, guess_last_song, guess_last_song_n>>
             ELSE /\ guess_last_song' = guess.song
                  /\ guess_last_song_n' = guess.n
                  /\ page' = guess.n \div PageSize
                  /\ pc' = "last_song"
                  /\ UNCHANGED output
    /\ UNCHANGED <<start_datetime, fetch_calls, song_candidates, last_song,
                   last_song_n, remoteVars, lib_call,
                   cliVars>>

LastPrevious ==
    /\ pc = "last_song"
    /\ HasPrevious(page)
    /\ page' = page - 1
    /\ guess_last_song' = <<>>
    /\ UNCHANGED <<pc, start_datetime, fetch_calls, song_candidates, first_song,
                   first_song_n, guess_last_song_n, last_song, last_song_n,
                   remoteVars, output, lib_call,
                   cliVars>>

LastNext ==
    /\ pc = "last_song"
    /\ HasNext(song_candidates, page, PageSize)
    /\ page' = page + 1
    /\ guess_last_song' = <<>>
    /\ UNCHANGED <<pc, start_datetime, fetch_calls, song_candidates, first_song,
                   first_song_n, guess_last_song_n, last_song, last_song_n,
                   remoteVars, output, lib_call,
                   cliVars>>

LastCancel ==
    /\ pc = "last_song"
    /\ Abort("You need to select a last song.")
    /\ UNCHANGED <<start_datetime, fetch_calls, song_candidates, selectionVars,
                   remoteVars, lib_call,
                   cliVars>>

LastPick ==
    /\ pc = "last_song"
    /\ \E i \in DOMAIN PageChoices(song_candidates, page, PageSize) :
          LET selected_song == PageChoices(song_candidates, page, PageSize)[i] IN
          /\ last_song_n' = selected_song.n
          /\ last_song' = selected_song.played_track
    /\ pc' = "name"
    /\ UNCHANGED <<start_datetime, fetch_calls, song_candidates, page, first_song,
                   first_song_n, guess_last_song, guess_last_song_n, remoteVars,
                   output, lib_call,
                   cliVars>>

\* the playlist name prompt is answered
InputName ==
    /\ pc = "name"
    /\ pc' = "create_playlist"
    /\ UNCHANGED <<start_datetime, fetch_calls, song_candidates, selectionVars,
                   remoteVars, output, lib_call,
                   cliVars>>

CancelName ==
    /\ pc = "name"
    /\ Abort("You need to input playlist name.")
    /\ UNCHANGED <<start_datetime, fetch_calls, song_candidates, selectionVars,
                   remoteVars, lib_call,
                   cliVars>>

\* spotify_api.me() and user_playlist_create() return
CreatePlaylist ==
    /\ pc = "create_playlist"
    /\ playlist_id' = <<"playlist">>
    /\ pc' = "resolve"
    /\ UNCHANGED <<start_datetime, fetch_calls, song_candidates, selectionVars,
                   search_calls, songs_to_add, add_items_calls, output, lib_call,
                   cliVars>>

\* spotify_api.me() or user_playlist_create() raises
CreatePlaylistFails ==
    /\ pc = "create_playlist"
    /\ Abort("SpotifyException")
    /\ UNCHANGED <<start_datetime, fetch_calls, song_candidates, selectionVars,
                   remoteVars, lib_call,
                   cliVars>>

\* the search the loop of create issues for a track and the items it gets
create_search(track) ==
    LET q == create_query(track)
    IN  [q |-> q, limit |-> 1, items |-> SpotifySearch(q, 1)]

\* create_search, tabulated per track
CreateSearches == [k \in TrackIds |-> create_search(k)]

\* resolve_range with the slice song_candidates[first : last]
resolve_range_Exclusive(candidates, first, last) ==
    LET stop == IF last > Len(candidates) THEN Len(candidates) ELSE last
        count == IF stop > first THEN stop - first ELSE 0
    IN  [i \in 1..count |-> first + i - 1]

\* the tracks the loop visits, in order: the indices of
\* song_candidates[first : last + 1]
resolve_range(candidates, first, last) ==
    LET stop == IF last + 1 > Len(candidates) THEN Len(candidates) ELSE last + 1
        count == IF stop > first THEN stop - first ELSE 0
    IN  [i \in 1..count |-> first + i - 1]

\* resolve_calls with the loop left at the first search without items
resolve_calls_StopAtMiss(candidates, first, last) ==
    LET range == resolve_range(candidates, first, last)
        all == [i \in 1..Len(range) |->
                   LET search == CreateSearches[At(candidates, range[i]).track]
                   IN  [n |-> range[i], q |-> search.q, limit |-> search.limit,
                        items |-> search.items]]
        misses == {i \in 1..Len(all) : all[i].items = <<>>}
    IN  IF misses = {} THEN all
        ELSE SubSeq(all, 1, CHOOSE i \in misses : \A j \in misses : i <= j)

\* the searches of the loop, one per visited track, n being the track's index
resolve_calls(candidates, first, last) ==
    LET range == resolve_range(candidates, first, last)
    IN  [i \in 1..Len(range) |->
            LET search == CreateSearches[At(candidates, range[i]).track]
            IN  [n |-> range[i], q |-> search.q, limit |-> search.limit,
                 items |-> search.items]]

HasItems(call) == Len(call.items) # 0

\* songs_to_add after the searches `calls`: the id of the first item of every
\* search that returned items
resolve_songs(calls) ==
    LET found == SelectSeq(calls, HasItems)
    IN  [i \in 1..Len(found) |-> found[i].items[1].id]

\* the resolution loop runs to its end
ResolveSongs ==
    /\ pc = "resolve"
    /\ LET calls == resolve_calls(song_candidates, first_song_n, last_song_n) IN
          /\ search_calls' = search_calls \o calls
          /\ songs_to_add' = resolve_songs(calls)
    /\ pc' = "add_items"
    /\ UNCHANGED <<start_datetime, fetch_calls, song_candidates, selectionVars,
                   playlist_id, add_items_calls, output, lib_call,
                   cliVars>>

\* the search for the track at index k raises: the searches before it were
\* made, the failing one returned nothing
SearchFails ==
    /\ pc = "resolve"
    /\ \E k \in first_song_n..last_song_n :
          LET before == resolve_calls(song_candidates, first_song_n, k - 1)
              failed == resolve_calls(song_candidates, k, k)
          IN  /\ search_calls' =
                    (search_calls \o before)
                    \o [i \in 1..Len(failed) |-> [failed[i] EXCEPT !.items = <<>>]]
              /\ songs_to_add' = resolve_songs(before)
    /\ Abort("SpotifyException")
    /\ UNCHANGED <<start_datetime, fetch_calls, song_candidates, selectionVars,
                   playlist_id, add_items_calls, lib_call,
                   cliVars>>

\* the ids handed to playlist_add_items, call by call
add_items_batches(songs) == <<songs>>

\* playlist_add_items returns and the summary is printed
AddItems ==
    /\ pc = "add_items"
    /\ add_items_calls' = add_items_calls \o add_items_batches(songs_to_add)
    /\ output' = SummaryOutput(Len(songs_to_add))
    /\ pc' = "done"
    /\ UNCHANGED <<start_datetime, fetch_calls, song_candidates, selectionVars,
                   playlist_id, search_calls, songs_to_add, lib_call,
                   cliVars>>

\* AddItemsFails with the created playlist removed again
AddItemsFails_RollsBack ==
    /\ pc = "add_items"
    /\ add_items_calls' = add_items_calls \o add_items_batches(songs_to_add)
    /\ playlist_id' = <<>>
    /\ Abort("SpotifyException")
    /\ UNCHANGED <<start_datetime, fetch_calls, song_candidates, selectionVars,
                   search_calls, songs_to_add, lib_call,
                   cliVars>>

\* playlist_add_items raises
AddItemsFails ==
    /\ pc = "add_items"
    /\ add_items_calls' = add_items_calls \o add_items_batches(songs_to_add)
    /\ Abort("SpotifyException")
    /\ UNCHANGED <<start_datetime, fetch_calls, song_candidates, selectionVars,
                   playlist_id, search_calls, songs_to_add, lib_call,
                   cliVars>>

-----------------------------------------------------------------------------
(* Calls of the tracks.py functions *)

createVars == <<start_datetime, fetch_calls, song_candidates, selectionVars,
                remoteVars, output, cliVars>>

CallGuessEndTrack ==
    /\ pc = "idle"
    /\ pc' = "returned"
    /\ \E tracks \in LibHistories, threshold \in Thresholds :
          \E first_track_n \in 0..Len(tracks) :
             lib_call' = [fn |-> "guess_end_track",
                          tracks |-> tracks,
                          first_track_n |-> first_track_n,
                          threshold |-> threshold,
                          result |-> guess_end_track(tracks, first_track_n, threshold)]
    /\ UNCHANGED createVars

CallLastfmTrackToSpotify ==
    /\ pc = "idle"
    /\ pc' = "returned"
    /\ \E track \in TrackIds :
          lib_call' = [fn |-> "lastfm_track_to_spotify",
                       track |-> track,
                       result |-> lastfm_track_to_spotify(track)]
    /\ UNCHANGED createVars

\* page sizes select_track is called with
PageSizes == {1, 2, PageSize}

\* the lists select_track is called with: a prompt needs at least one choice
SelectHistories == {h \in LibHistories : Len(h) > 0} \cup {LongHistory}

\* the pages of a list, counted
NumPages(tracks, page_size) == (Len(tracks) + page_size - 1) \div page_size

\* select_track is called and shows its first prompt; default_choice is <<>>
\* (None) or the first choice of the page
CallSelectTrack ==
    /\ pc = "idle"
    /\ pc' = "select_track"
    /\ \E tracks \in SelectHistories, page_size \in PageSizes :
          \E p \in 0..(NumPages(tracks, page_size) - 1) :
             \E default_choice \in {<<>>, <<PageChoices(tracks, p, page_size)[1]>>} :
                lib_call' = [fn |-> "select_track",
                             tracks |-> tracks,
                             page_size |-> page_size,
                             page |-> p,
                             default_choice |-> default_choice,
                             result |-> <<>>]
    /\ UNCHANGED createVars

SelectPrevious ==
    /\ pc = "select_track"
    /\ HasPrevious(lib_call.page)
    /\ lib_call' = [lib_call EXCEPT !.page = @ - 1, !.default_choice = <<>>]
    /\ UNCHANGED <<pc, createVars>>

SelectNext ==
    /\ pc = "select_track"
    /\ HasNext(lib_call.tracks, lib_call.page, lib_call.page_size)
    /\ lib_call' = [lib_call EXCEPT !.page = @ + 1, !.default_choice = <<>>]
    /\ UNCHANGED <<pc, createVars>>

\* a track of the page is selected: its EnumeratedTrack is returned
SelectPick ==
    /\ pc = "select_track"
    /\ pc' = "returned"
    /\ \E i \in DOMAIN PageChoices(lib_call.tracks, lib_call.page, lib_call.page_size) :
          lib_call' = [lib_call EXCEPT !.result =
              <<PageChoices(lib_call.tracks, lib_call.page, lib_call.page_size)[i]>>]
    /\ UNCHANGED createVars

\* the prompt is cancelled: ask() returns None, and so does select_track
SelectCancel ==
    /\ pc = "select_track"
    /\ pc' = "returned"
    /\ lib_call' = [lib_call EXCEPT !.result = <<>>]
    /\ UNCHANGED createVars

-----------------------------------------------------------------------------

Next ==
    \/ Authorize
    \/ InvokeVersion
    \/ ConfigNotFound
    \/ ClientFails
    \/ InvokeCreate
    \/ CancelStart
    \/ SelectStart
    \/ Fetch
    \/ FirstPrevious
    \/ FirstNext
    \/ FirstCancel
    \/ FirstPick
    \/ LastPrevious
    \/ LastNext
    \/ LastCancel
    \/ LastPick
    \/ InputName
    \/ CancelName
    \/ CreatePlaylist
    \/ CreatePlaylistFails
    \/ ResolveSongs
    \/ SearchFails
    \/ AddItems
    \/ AddItemsFails
    \/ CallGuessEndTrack
    \/ CallLastfmTrackToSpotify
    \/ CallSelectTrack
    \/ SelectPrevious
    \/ SelectNext
    \/ SelectPick
    \/ SelectCancel

Spec == Init /\ [][Next]_vars

-----------------------------------------------------------------------------
(* Properties *)

MinOf(S) == CHOOSE x \in S : \A y \in S : x <= y

\* the indices i >= start whose successor was played more than threshold
\* minutes later
GapIndices(list, start, threshold) ==
    {i \in start..(Len(list) - 2) :
        At(list, i + 1).timestamp - At(list, i).timestamp > threshold * 60}

\* the first song has been picked, so the create command has made its guess
GuessMade == first_song_n # NoneN

GuessEndTrackCalled ==
    /\ lib_call.fn = "guess_end_track"
    /\ lib_call.first_track_n < Len(lib_call.tracks)

\* C1: when some adjacent pair at or after the start index is more than the
\* threshold apart, the guessed end index is the smallest index of such a
\* pair (a gap equal to the threshold does not count), in the create command
\* and in guess_end_track.
C1_GuessIsFirstGap ==
    /\ (GuessMade /\ GapIndices(song_candidates, first_song_n, 60) # {})
          => /\ output.text # "IndexError"
             /\ guess_last_song_n =
                   MinOf(GapIndices(song_candidates, first_song_n, 60))
    /\ GuessEndTrackCalled =>
          LET gaps == GapIndices(lib_call.tracks, lib_call.first_track_n,
                                 lib_call.threshold)
          IN  gaps # {} => lib_call.result = MinOf(gaps)

\* the create command scanned past a gap of exactly 60 minutes and stopped
\* at the next, larger one
C1_Witness ==
    /\ pc = "last_song"
    /\ first_song_n = 0
    /\ guess_last_song_n = 1
    /\ At(song_candidates, 1).timestamp - At(song_candidates, 0).timestamp = 3600

\* C2: when no adjacent pair at or after the start index is more than the
\* threshold apart, the guessed end index is the last index of the history
\* and the run goes on to the last-song selection, in the create command and
\* in guess_end_track.
C2_NoGapGuessIsLast ==
    /\ (GuessMade /\ GapIndices(song_candidates, first_song_n, 60) = {})
          => /\ output.text # "IndexError"
             /\ guess_last_song_n = Len(song_candidates) - 1
    /\ GuessEndTrackCalled =>
          LET gaps == GapIndices(lib_call.tracks, lib_call.first_track_n,
                                 lib_call.threshold)
          IN  gaps = {} => lib_call.result = Len(lib_call.tracks) - 1

\* the resolution loop of the create command has run to its end
Resolved == playlist_id # <<>> /\ (pc \in {"add_items", "done"} \/ add_items_calls # <<>>)

\* N: the number of events in the confirmed range
RangeSize ==
    IF last_song_n >= first_song_n THEN last_song_n - first_song_n + 1 ELSE 0

\* M: the number of searches that returned a match
MatchCount ==
    Cardinality({i \in 1..Len(search_calls) : search_calls[i].items # <<>>})

RECURSIVE Flatten(_)
Flatten(lists) ==
    IF lists = <<>> THEN <<>> ELSE Head(lists) \o Flatten(Tail(lists))

\* C3: a search with no result does not end the batch: all N events of the
\* range are searched, and the M matches are the ids collected, the ids
\* handed to add_items and the count of the summary.
C3_MissesAreSkipped ==
    /\ Resolved =>
          /\ Len(search_calls) = RangeSize
          /\ Len(songs_to_add) = MatchCount
    /\ add_items_calls # <<>> => Len(Flatten(add_items_calls)) = MatchCount
    /\ pc = "done" =>
          /\ output.kind = "summary"
          /\ output.added = MatchCount
          /\ Len(Flatten(add_items_calls)) = MatchCount

\* a run that ended with a miss followed by a match
C3_Witness ==
    /\ pc = "done"
    /\ Len(search_calls) >= 2
    /\ search_calls[1].items = <<>>
    /\ search_calls[2].items # <<>>
    /\ output.added < RangeSize
    /\ output.added > 0

\* C4: no add_items call carries more than 75 ids, and the calls together
\* carry the resolved ids once each, in order.
C4_BatchesWithinCap ==
    /\ \A i \in 1..Len(add_items_calls) : Len(add_items_calls[i]) <= 75
    /\ add_items_calls # <<>> => Flatten(add_items_calls) = songs_to_add

FetchedNothing == fetch_calls # <<>> /\ song_candidates = <<>>

\* C6: when the fetch yields no events the command stops with an error: no
\* selection, no playlist, no search, no add_items.
C6_EmptyHistoryStops ==
    FetchedNothing =>
       /\ pc = "aborted"
       /\ output = ErrorOutput("No song candidates found.")
       /\ first_song_n = NoneN
       /\ last_song_n = NoneN
       /\ playlist_id = <<>>
       /\ search_calls = <<>>
       /\ add_items_calls = <<>>

C6_Witness == FetchedNothing /\ fetch_calls[1].returned = <<>> /\ pc = "aborted"

\* the suffix markers of the specification
SuffixMarkers ==
    {<<"f", "t">>,
     <<"F", "t">>,
     <<"(", "f", "t">>,
     <<"(", "F", "t">>,
     <<"f", "e", "a", "t">>,
     <<"F", "e", "a", "t">>,
     <<"(", "f", "e", "a", "t">>,
     <<"(", "F", "e", "a", "t">>}

\* the title with only a trailing suffix marker removed (the longest one that
\* ends the title), then trimmed
ExpectedTitle(name) ==
    LET ending == {m \in SuffixMarkers : EndsWith(name, m)}
    IN  IF ending = {} THEN Strip(name)
        ELSE LET longest == CHOOSE m \in ending :
                                \A o \in ending : Len(o) <= Len(m)
             IN  Strip(SubSeq(name, 1, Len(name) - Len(longest)))

\* the text after " track:" in a query built for the track
QueryTitle(q, artist_term) ==
    SubSeq(q, Len(FormatQuery(artist_term, <<>>)) + 1, Len(q))

\* C7: the title of every search query is the event's title with only a
\* trailing suffix marker removed and then trimmed, in the create command and
\* in lastfm_track_to_spotify.
C7_TitleOnlyLosesSuffix ==
    /\ \A i \in 1..Len(search_calls) :
          LET track == At(song_candidates, search_calls[i].n).track
          IN  QueryTitle(search_calls[i].q, create_artist(track))
                 = ExpectedTitle(GetName(track))
    /\ lib_call.fn = "lastfm_track_to_spotify" =>
          QueryTitle(lib_call.result.search.q, lastfm_artist_name(lib_call.track))
             = ExpectedTitle(GetName(lib_call.track))

\* the artist with every occurrence of "the" and of "The" removed in one pass
\* from the left, then trimmed
RECURSIVE RemoveThe(_)
RemoveThe(s) ==
    IF s = <<>> THEN <<>>
    ELSE IF StartsWith(s, <<"t", "h", "e">>) \/ StartsWith(s, <<"T", "h", "e">>)
         THEN RemoveThe(SubSeq(s, 4, Len(s)))
         ELSE <<Head(s)>> \o RemoveThe(Tail(s))

ExpectedArtist(artist) == Strip(RemoveThe(artist))

\* the text between "artist:" and " track:" in a query built for the track
QueryArtist(q, track_term) ==
    SubSeq(q, Len(FormatQuery(<<>>, <<>>)) - 6, Len(q) - Len(track_term) - 7)

\* C8: the artist term of every search query is the event's artist without
\* "the" and "The", trimmed, in the create command and in
\* lastfm_track_to_spotify.
C8_ArtistLosesThe ==
    /\ \A i \in 1..Len(search_calls) :
          LET track == At(song_candidates, search_calls[i].n).track
          IN  QueryArtist(search_calls[i].q, create_track_name(track))
                 = ExpectedArtist(GetArtistName(track))
    /\ lib_call.fn = "lastfm_track_to_spotify" =>
          QueryArtist(lib_call.result.search.q, lastfm_track_name(lib_call.track))
             = ExpectedArtist(GetArtistName(lib_call.track))

IsAscending(list) ==
    \A i \in 1..(Len(list) - 1) : list[i].timestamp <= list[i + 1].timestamp

IsNewestFirst(list) ==
    \A i \in 1..(Len(list) - 1) : list[i].timestamp >= list[i + 1].timestamp

C10_SearchesFollowRange ==
    /\ \A i \in 1..Len(search_calls) :
          /\ search_calls[i].n = first_song_n + i - 1
          /\ search_calls[i].n <= last_song_n
          /\ search_calls[i].limit = 1
          /\ search_calls[i].q
                = CreateSearches[At(song_candidates, search_calls[i].n).track].q
    /\ Resolved =>
          /\ Len(search_calls) = RangeSize
          /\ LET found == SelectSeq(search_calls, HasItems)
             IN  songs_to_add = [i \in 1..Len(found) |-> found[i].items[1].id]
    /\ pc = "done" => Flatten(add_items_calls) = songs_to_add

\* a finished run over a range of several events of two different tracks,
\* strictly inside the history
C10_Witness ==
    /\ pc = "done"
    /\ first_song_n > 0
    /\ last_song_n > first_song_n + 1
    /\ last_song_n < Len(song_candidates) - 1
    /\ Len(songs_to_add) = RangeSize
    /\ songs_to_add[1] # songs_to_add[2]

\* C11: while no playlist has been created (also after its creation failed)
\* no search and no add_items call is made; once the playlist is created it
\* stays, whatever fails later.
C11_CreateFirstThenKeep ==
    /\ [](playlist_id = <<>> =>
             /\ search_calls = <<>>
             /\ add_items_calls = <<>>
             /\ songs_to_add = <<>>)
    /\ [][playlist_id # <<>> => playlist_id' = playlist_id]_vars

\* add_items failed after searches were made, and the playlist is still there
C11_Witness ==
    /\ pc = "aborted"
    /\ output.text = "SpotifyException"
    /\ playlist_id # <<>>
    /\ search_calls # <<>>
    /\ add_items_calls # <<>>

-----------------------------------------------------------------------------

\* the state of a process in which create has not started
CreateNotStarted ==
    /\ start_datetime = 0
    /\ fetch_calls = <<>>
    /\ song_candidates = <<>>
    /\ first_song_n = NoneN
    /\ last_song_n = NoneN
    /\ playlist_id = <<>>
    /\ search_calls = <<>>
    /\ add_items_calls = <<>>

\* C12: a --version invocation prints the version and exits with code 0,
\* with or without a saved config file; the context (config and API clients)
\* is never built and create never starts.
C12_VersionExitsCleanly ==
    /\ output.kind = "version" =>
          /\ pc = "exited"
          /\ output = VersionOutput
          /\ output.code = 0
          /\ ctx_obj = <<>>
          /\ CreateNotStarted
    /\ pc = "exited" => output.kind = "version"

\* --version was given while no config file exists
C12_Witness ==
    /\ pc = "exited"
    /\ output.kind = "version"
    /\ ~config_saved

\* p is one of the pages of the list
InPageRange(tracks, p, page_size) ==
    p \in 0..(NumPages(tracks, page_size) - 1)

\* n is an index of the list and track is the track at n
IsSelection(tracks, n, track) ==
    /\ n \in 0..(Len(tracks) - 1)
    /\ track = At(tracks, n)

\* C13: in select_track and in both selection loops of create the page stays
\* one of the pages of the list, and a loop ends either with no selection or
\* with an index of the list paired with the track at that index.
C13_PagingStaysInRange ==
    /\ pc \in {"first_song", "last_song"} =>
          InPageRange(song_candidates, page, PageSize)
    /\ IF first_song_n = NoneN
       THEN /\ first_song = NoneTrack
            /\ pc \notin {"last_song", "name", "create_playlist", "resolve",
                           "add_items", "done"}
       ELSE IsSelection(song_candidates, first_song_n, first_song)
    /\ IF last_song_n = NoneN
       THEN /\ last_song = NoneTrack
            /\ pc \notin {"name", "create_playlist", "resolve", "add_items",
                           "done"}
       ELSE IsSelection(song_candidates, last_song_n, last_song)
    /\ lib_call.fn = "select_track" =>
          /\ InPageRange(lib_call.tracks, lib_call.page, lib_call.page_size)
          /\ Len(lib_call.result) <= 1
          /\ \A i \in 1..Len(lib_call.result) :
                /\ pc = "returned"
                /\ IsSelection(lib_call.tracks, lib_call.result[i].n,
                               lib_call.result[i].played_track)

\* select_track returned a track of a later page that ends with the last
\* track of the list, reached with Next
C13_Witness ==
    /\ pc = "returned"
    /\ lib_call.fn = "select_track"
    /\ lib_call.result # <<>>
    /\ lib_call.page > 0
    /\ lib_call.default_choice = <<>>
    /\ (lib_call.page + 1) * lib_call.page_size = Len(lib_call.tracks)

\* C14: a history fetch is issued only for a chosen start (the fetch start
\* plus the buffer) that is not after now; a later choice aborts before the
\* fetch.
C14_FutureStartNeverFetched ==
    /\ pc = "fetch" => start_datetime + StartBuffer <= 0
    /\ \A i \in 1..Len(fetch_calls) :
          fetch_calls[i].time_from + StartBuffer <= 0

====
